---- MODULE Spec2Model ----
(***************************************************************************)
(* Model of visualime.visualize.select_segments (src/visualime/visualize.py)*)
(*                                                                         *)
(* The function is pure.  A state holds one image (label mask and weight   *)
(* vector), the rank order numpy produced for it, the arguments of the     *)
(* latest call and what that call returned or raised.                      *)
(*                                                                         *)
(* Coverage values are exact fractions n / CovDen, kept as the numerator   *)
(* n.  A measured coverage count / _area is compared with a coverage value *)
(* by cross-multiplication, which agrees with the float comparison for the *)
(* small numerators and denominators used here.                            *)
(* An Optional argument is <<>> for None and <<v>> for the value v.        *)
(***************************************************************************)
EXTENDS Integers, Sequences, FiniteSets

\* ---- bounds of the model -------------------------------------------------
Rows == 2          \* segment_mask.shape[0]
Cols == 2          \* segment_mask.shape[1]
MaxId == 2         \* largest segment id a mask may hold
MaxWeight == 2     \* weights are drawn from 0..MaxWeight
CovDen == 2        \* coverage values are n / CovDen, n in 0..CovDen
MaxNum == 3        \* largest num_of_segments / max_num_of_segments passed
MaxMinNum == 1     \* largest min_num_of_segments passed
RecursionLimit == 2 \* nesting at which the interpreter raises RecursionError

VARIABLES segment_weights, segment_mask, ordered_segments, call, result

vars == <<segment_weights, segment_mask, ordered_segments, call, result>>

\* ---- helpers -------------------------------------------------------------
None == <<>>

Min(a, b) == IF a <= b THEN a ELSE b

Max(a, b) == IF a >= b THEN a ELSE b

Range(s) == {s[i] : i \in DOMAIN s}

Pixels == (1..Rows) \X (1..Cols)

\* np.max(segment_mask)
MaskMax(m) == CHOOSE x \in {m[p] : p \in DOMAIN m} : \A q \in DOMAIN m : m[q] <= x

\* segment_mask.shape[0] * segment_mask.shape[1]
Area == Rows * Cols

\* s[:k] of Python, negative k counting from the end
Slice(s, k) ==
    LET n == IF k >= 0 THEN Min(k, Len(s)) ELSE Max(Len(s) + k, 0)
    IN  SubSeq(s, 1, n)

\* np.isin(segment_mask, sel).sum()
IsinSum(m, sel) == Cardinality({p \in DOMAIN m : m[p] \in Range(sel)})

Perms(S) == {f \in [1..Cardinality(S) -> S] : \A i, j \in DOMAIN f : i # j => f[i] # f[j]}

ArgsortAscending(w) ==
    {f \in Perms(DOMAIN w) : \A i, j \in DOMAIN f : i < j => w[f[i]] <= w[f[j]]}

\* np.argsort(-segment_weights): the default sort kind is not stable, so the
\* order among equal weights is whichever the build produces.
ArgsortDescending(w) ==
    {f \in Perms(DOMAIN w) : \A i, j \in DOMAIN f : i < j => w[f[i]] >= w[f[j]]}

\* max_num_of_segments or int(np.max(segment_mask) + 1)
EffectiveMax(maxn, m) ==
    IF maxn = None \/ maxn = <<0>> THEN MaskMax(m) + 1 ELSE maxn[1]

ConfigError_neitherOnly(a, maxn) ==
    \/ a.coverage = None /\ a.num_of_segments = None
    \/ a.min_coverage >= a.max_coverage
    \/ a.min_num_of_segments >= maxn

\* the four checks that raise ValueError
ConfigError(a, maxn) ==
    \/ a.coverage = None /\ a.num_of_segments = None
    \/ a.coverage # None /\ a.num_of_segments # None
    \/ a.min_coverage >= a.max_coverage
    \/ a.min_num_of_segments >= maxn

\* the for/else scan of the coverage-driven path; c is the clamped coverage
ScanCoverage(m, ord, c, maxn) ==
    LET hits == {i \in 0..maxn : IsinSum(m, Slice(ord, i)) * CovDen >= c * Area}
    IN  IF hits = {} THEN maxn
        ELSE (CHOOSE i \in hits : \A j \in hits : i <= j) - 2

FallbackArgs_keepBounds(a, target) ==
    [a EXCEPT !.coverage = <<target>>, !.num_of_segments = None]

\* the arguments of the re-invocation: only coverage is passed on
FallbackArgs(a, target) ==
    [coverage |-> <<target>>, num_of_segments |-> None,
     min_coverage |-> 0, max_coverage |-> CovDen,
     min_num_of_segments |-> 0, max_num_of_segments |-> None]

RECURSIVE select_segments(_, _, _, _)
select_segments(m, ord, a, level) ==
    IF level > RecursionLimit
    THEN [error |-> "RecursionError", selected |-> <<>>, depth |-> level]
    ELSE
    LET maxn == EffectiveMax(a.max_num_of_segments, m)
    IN  IF ConfigError(a, maxn)
        THEN [error |-> "ValueError", selected |-> <<>>, depth |-> level]
        ELSE
        LET c    == Max(Min(a.coverage[1], a.max_coverage), a.min_coverage)
            num0 == IF a.coverage # None
                    THEN ScanCoverage(m, ord, c, maxn)
                    ELSE a.num_of_segments[1]
            num  == Max(Min(num0, maxn), a.min_num_of_segments)
            cand == Slice(ord, num + 1)
            cnt  == IsinSum(m, cand)
        IN  IF cnt * CovDen > a.max_coverage * Area
            THEN select_segments(m, ord, FallbackArgs(a, a.max_coverage), level + 1)
            ELSE IF cnt * CovDen < a.min_coverage * Area
            THEN select_segments(m, ord, FallbackArgs(a, a.min_coverage), level + 1)
            ELSE [error |-> "none", selected |-> cand, depth |-> level]

\* ---- inputs --------------------------------------------------------------
Coverages == 0..CovDen

\* row-major position of a pixel
Index(p) == (p[1] - 1) * Cols + p[2]

\* The function reads the mask only through np.max, its shape and
\* np.isin(...).sum(), none of which depends on where a label sits, so the
\* masks are enumerated up to a permutation of the pixels: labels ascend in
\* row-major order.
Masks ==
    {m \in [Pixels -> 0..MaxId] :
        \A p, q \in Pixels : Index(p) < Index(q) => m[p] <= m[q]}

OptCoverage == {None} \cup {<<c>> : c \in Coverages}

OptNum == {None} \cup {<<k>> : k \in 0..MaxNum}

Args ==
    [coverage : OptCoverage, num_of_segments : OptNum,
     min_coverage : Coverages, max_coverage : Coverages,
     min_num_of_segments : 0..MaxMinNum, max_num_of_segments : OptNum]


\* ---- state machine -------------------------------------------------------
Init ==
    /\ segment_mask \in Masks
    /\ segment_weights \in [0..MaskMax(segment_mask) -> 0..MaxWeight]
    /\ ordered_segments \in ArgsortDescending(segment_weights)
    /\ call = None
    /\ result = None

Call ==
    /\ call = None
    /\ \E a \in Args :
          /\ call' = <<a>>
          /\ result' = <<select_segments(segment_mask, ordered_segments, a, 0)>>
    /\ UNCHANGED <<segment_weights, segment_mask, ordered_segments>>

Next == Call

Spec == Init /\ [][Next]_vars

\* ---- vocabulary of the properties ----------------------------------------
Called == call # None

\* the arguments of the call and what it produced
A == call[1]

R == result[1]

NumIds == MaskMax(segment_mask) + 1

Prefix(n) == SubSeq(ordered_segments, 1, n)

AllNonEmpty == \A id \in 0..MaskMax(segment_mask) : \E p \in Pixels : segment_mask[p] = id

DefaultCoverageBounds(a) == a.min_coverage = 0 /\ a.max_coverage = CovDen

DefaultCountBounds(a) == a.min_num_of_segments = 0 /\ a.max_num_of_segments = None

ExactlyOne(a) == (a.coverage = None) # (a.num_of_segments = None)

\* max_num_of_segments as documented: derived only when the caller left it unset
DocumentedMax(a) ==
    IF a.max_num_of_segments = None THEN NumIds ELSE a.max_num_of_segments[1]

DocumentedBoundsValid(a) ==
    /\ a.min_coverage < a.max_coverage
    /\ a.min_num_of_segments < DocumentedMax(a)

\* a call the code accepts
Accepted(a) ==
    /\ ExactlyOne(a)
    /\ a.min_coverage < a.max_coverage
    /\ a.min_num_of_segments < EffectiveMax(a.max_num_of_segments, segment_mask)

\* what another call on the same image would return
Other(a) == select_segments(segment_mask, ordered_segments, a, 0)

\* number of pixels covered by a selection
Covered(sel) == IsinSum(segment_mask, sel)

\* ---- C1 ------------------------------------------------------------------
\* C1: a call with num_of_segments = k, no coverage, default bounds and
\* 0 <= k <= number of segments returns exactly the k highest-weight ids.
C1_ExactlyK ==
    (Called /\ A.coverage = None /\ A.num_of_segments # None
       /\ DefaultCoverageBounds(A) /\ DefaultCountBounds(A)
       /\ A.num_of_segments[1] <= NumIds)
    => (R.error = "none" /\ R.selected = Prefix(A.num_of_segments[1]))

\* ---- C2 ------------------------------------------------------------------
SmallestReaching(c) ==
    CHOOSE i \in 0..NumIds :
        /\ Covered(Prefix(i)) * CovDen >= c * Area
        /\ \A j \in 0..(i - 1) : Covered(Prefix(j)) * CovDen < c * Area

\* C2: a coverage-driven call with default bounds on a mask without empty
\* segments returns the smallest prefix of the rank order that reaches the
\* coverage; coverage 0.0 returns no ids and coverage 1.0 returns all of them.
C2_SmallestPrefix ==
    (Called /\ A.coverage # None /\ A.num_of_segments = None
       /\ DefaultCoverageBounds(A) /\ DefaultCountBounds(A) /\ AllNonEmpty)
    => /\ R.error = "none"
       /\ R.selected = Prefix(SmallestReaching(A.coverage[1]))
       /\ A.coverage[1] = 0 => Len(R.selected) <= A.min_num_of_segments
       /\ A.coverage[1] = CovDen => Len(R.selected) = NumIds

\* ---- C3 ------------------------------------------------------------------
CountCallWithCoverageBounds ==
    /\ Called /\ A.coverage = None /\ A.num_of_segments # None
    /\ DefaultCountBounds(A) /\ A.min_coverage < A.max_coverage

\* C3: a count-driven call with default count bounds never returns a
\* selection whose coverage fraction exceeds max_coverage.
C3_AtMostMaxCoverage ==
    CountCallWithCoverageBounds
    => (R.error = "none" /\ Covered(R.selected) * CovDen <= A.max_coverage * Area)

\* ---- C4 ------------------------------------------------------------------
\* C4: a count-driven call with default count bounds on a mask without empty
\* segments never returns a selection whose coverage fraction is below
\* min_coverage.
C4_AtLeastMinCoverage ==
    (CountCallWithCoverageBounds /\ AllNonEmpty)
    => (R.error = "none" /\ Covered(R.selected) * CovDen >= A.min_coverage * Area)

\* ---- C5 ------------------------------------------------------------------
\* C5: a valid call with an explicit max_num_of_segments = M returns at most
\* M ids.
C5_AtMostMaxNum ==
    (Called /\ ExactlyOne(A) /\ A.max_num_of_segments # None /\ DocumentedBoundsValid(A))
    => (R.error = "none" /\ Len(R.selected) <= A.max_num_of_segments[1])

\* ---- C6 ------------------------------------------------------------------
\* C6: for the same weights, mask and bounds, a larger num_of_segments never
\* gives a smaller coverage fraction, and neither does a larger coverage.
C6_Monotone ==
    (Called /\ Accepted(A))
    => /\ A.num_of_segments # None =>
            \A k2 \in 0..MaxNum :
                A.num_of_segments[1] <= k2 =>
                    Covered(R.selected)
                        <= Covered(Other([A EXCEPT !.num_of_segments = <<k2>>]).selected)
       /\ A.coverage # None =>
            \A c2 \in Coverages :
                A.coverage[1] <= c2 =>
                    Covered(R.selected)
                        <= Covered(Other([A EXCEPT !.coverage = <<c2>>]).selected)

\* ---- C7 ------------------------------------------------------------------
\* C7: a call with both or neither of coverage and num_of_segments raises
\* ValueError and returns nothing, whatever the other arguments; a call with
\* exactly one of them and valid bounds raises no ValueError.
C7_ExactlyOneRequired ==
    Called =>
        /\ ~ExactlyOne(A) => (R.error = "ValueError" /\ R.selected = <<>>)
        /\ (ExactlyOne(A) /\ DocumentedBoundsValid(A)) => R.error # "ValueError"

C7_Witness ==
    /\ Called /\ A.coverage # None /\ A.num_of_segments # None
    /\ DocumentedBoundsValid(A) /\ ~DefaultCoverageBounds(A)
    /\ R.error = "ValueError"

\* ---- C8 ------------------------------------------------------------------
\* C8: a call with min_coverage >= max_coverage or min_num_of_segments >=
\* max_num_of_segments raises ValueError, max_num_of_segments being the
\* derived value only when the caller left it unset.
C8_BoundsRejected ==
    (Called /\ ~DocumentedBoundsValid(A)) => R.error = "ValueError"

\* ---- C9 ------------------------------------------------------------------
\* C9: every returned selection is a prefix of the rank order: weights are
\* non-increasing along it, no id occurs twice, and on a mask that holds all
\* ids 0..N-1 every returned id is an id of the mask.
C9_RankPrefix ==
    (Called /\ R.error = "none")
    => LET sel == R.selected
       IN  /\ \E n \in 0..NumIds : sel = Prefix(n)
           /\ \A i, j \in DOMAIN sel :
                i < j => /\ segment_weights[sel[i]] >= segment_weights[sel[j]]
                         /\ sel[i] # sel[j]
           /\ \A i \in DOMAIN sel : \A id \in 0..MaskMax(segment_mask) :
                id \notin Range(sel) => segment_weights[id] <= segment_weights[sel[i]]
           /\ AllNonEmpty =>
                \A i \in DOMAIN sel : \E p \in Pixels : segment_mask[p] = sel[i]

C9_Witness ==
    /\ Called /\ R.error = "none" /\ R.depth = 1 /\ AllNonEmpty
    /\ NumIds = 3 /\ Len(R.selected) = 1
    /\ \A id \in 0..MaskMax(segment_mask) :
          id # R.selected[1] => segment_weights[id] < segment_weights[R.selected[1]]

\* ---- C10 -----------------------------------------------------------------
\* C10: every accepted call returns, and it re-invokes select_segments at
\* most once: the re-invocation raises nothing and never re-invokes again.
C10_DepthAtMostOne ==
    (Called /\ Accepted(A)) => (R.error = "none" /\ R.depth <= 1)

C10_Witness ==
    /\ Called /\ Accepted(A) /\ R.error = "none" /\ R.depth = 1
    /\ A.max_coverage < CovDen /\ A.min_num_of_segments > 0

====
